---- MODULE Spec2Model ----
(***************************************************************************)
(* A model of main.py: the loose-object store (create_object,             *)
(* read_object), the tree capture (write_tree), the clone command with    *)
(* its pack decoder and delta application, and the checkout renderer      *)
(* (render_tree).                                                         *)
(*                                                                         *)
(* Byte strings are sequences of bytes.  A byte is a tuple: <<n>> is the  *)
(* byte of value n; <<i, c>> is the i-th byte of a SHA-1 digest and       *)
(* <<i, k, c>> the k-th hexadecimal digit of that byte.  The first byte   *)
(* of the digest of a byte string and its first digit carry the string    *)
(* as c, the others carry <<>>: a digest is determined by the hashed      *)
(* content and distinct contents have distinct digests (SHA-1 without     *)
(* collisions).  Python str values are modelled by their ASCII bytes.     *)
(***************************************************************************)
EXTENDS Integers, Sequences, FiniteSets, TLC

VARIABLES
  worktree,   \* the working directory (cwd), the clone target "." included
  objects,    \* .git/objects: path <<xx, yy>> -> bytes of the file
  refs,       \* .git/<name>: reference name -> text of the file
  rendered,   \* the directory render_tree has written, or Absent
  last,       \* what the last finished command did and returned
  cmds,       \* number of commands started so far
  pc,         \* position of the running clone command, "idle" when none
  server,     \* what the remote of the running clone serves
  pack_file,  \* clone: the bytes of the pack not yet consumed
  nr_left     \* clone: iterations of the object loop still to run

vars == <<worktree, objects, refs, rendered, last, cmds, pc, server, pack_file, nr_left>>

--------------------------------------------------------------------------
(* Bytes and text *)

B(n) == <<n>>

Ascii(codes) == [i \in 1..Len(codes) |-> B(codes[i])]

IsPlain(b) == Len(b) = 1

NUL == B(0)
SP == B(32)
LF == B(10)
SLASH == B(47)

Min(a, b) == IF a < b THEN a ELSE b

\* bs[lo:hi] of Python for 0 <= lo: both ends are clamped to the length.
Slice(bs, lo, hi) == SubSeq(bs, lo + 1, Min(hi, Len(bs)))

\* bs[lo:] of Python.
Drop(bs, lo) == SubSeq(bs, lo + 1, Len(bs))

RECURSIVE Concat(_)
Concat(ss) == IF ss = <<>> THEN <<>> ELSE Head(ss) \o Concat(Tail(ss))

\* str(n) for n >= 0: decimal, no leading zeros.
RECURSIVE Decimal(_)
Decimal(n) ==
  IF n < 10 THEN <<B(48 + n)>> ELSE Decimal(n \div 10) \o <<B(48 + (n % 10))>>

\* Index of the first occurrence of byte b in bs, 0 when there is none.
IndexOf(bs, b) ==
  IF \E i \in 1..Len(bs) : bs[i] = b
  THEN CHOOSE i \in 1..Len(bs) : bs[i] = b /\ \A j \in 1..(i - 1) : bs[j] # b
  ELSE 0

\* bs.split(sep) with a one-byte separator: every piece, empty ones included.
RECURSIVE Split(_, _)
Split(bs, sep) ==
  LET i == IndexOf(bs, sep)
  IN IF i = 0 THEN <<bs>>
     ELSE <<SubSeq(bs, 1, i - 1)>> \o Split(Drop(bs, i), sep)

\* bs.split(sep, maxsplit=1)
Split1(bs, sep) ==
  LET i == IndexOf(bs, sep)
  IN IF i = 0 THEN <<bs>> ELSE <<SubSeq(bs, 1, i - 1), Drop(bs, i)>>

TypeBlob == Ascii(<<98, 108, 111, 98>>)
TypeTree == Ascii(<<116, 114, 101, 101>>)
TypeCommit == Ascii(<<99, 111, 109, 109, 105, 116>>)
TypeTag == Ascii(<<116, 97, 103>>)
ObjectTypes == {TypeBlob, TypeTree, TypeCommit, TypeTag}

--------------------------------------------------------------------------
(* hashlib.sha1 and zlib *)

DigestLen == 20

\* hashlib.sha1(content).digest()
Sha1(content) == [i \in 1..DigestLen |-> <<i, IF i = 1 THEN content ELSE <<>>>>]

\* bytes.hex(): two digits per byte, high digit first.
HexDigit(v) == IF v < 10 THEN B(48 + v) ELSE B(87 + v)

Hex(raw) ==
  [k \in 1..(2 * Len(raw)) |->
     LET b == raw[(k + 1) \div 2]
     IN IF IsPlain(b)
        THEN HexDigit(IF k % 2 = 1 THEN b[1] \div 16 ELSE b[1] % 16)
        ELSE <<b[1], 2 - (k % 2), IF k % 2 = 1 THEN b[2] ELSE <<>>>>]

\* hashlib.sha1(content).hexdigest()
HexDigest(content) == Hex(Sha1(content))

\* int(sha, 16).to_bytes(20, byteorder="big") on the hex form of a digest
FromHex(sha) == [i \in 1..DigestLen |-> <<sha[2 * i - 1][1], sha[2 * i - 1][3]>>]

\* A zlib stream is the header byte, the literals of the data, the
\* end-of-block symbol (literal/length code 256) and the checksum.
ZHeader == B(120)
ZEndOfBlock == B(256)
ZChecksum(data) == B(Len(data) % 251)

\* zlib.compress(data)
Compress(data) == <<ZHeader>> \o data \o <<ZEndOfBlock, ZChecksum(data)>>

\* zlib.decompressobj().decompress(bs): the data decoded from as much of the
\* stream as is there, and unused_data, the bytes after a complete stream.
\* A stream cut short is no error: what could be decoded is returned.
DecompressObj(bs) ==
  LET e == IndexOf(bs, ZEndOfBlock)
  IN IF bs = <<>> THEN [error |-> FALSE, eof |-> FALSE, data |-> <<>>, unused |-> <<>>]
     ELSE IF bs[1] # ZHeader
          THEN [error |-> TRUE, eof |-> FALSE, data |-> <<>>, unused |-> <<>>]
     ELSE IF e = 0
          THEN [error |-> FALSE, eof |-> FALSE, data |-> Drop(bs, 1), unused |-> <<>>]
     ELSE IF Len(bs) = e
          THEN [error |-> FALSE, eof |-> FALSE, data |-> SubSeq(bs, 2, e - 1),
                unused |-> <<>>]
     ELSE IF bs[e + 1] # ZChecksum(SubSeq(bs, 2, e - 1))
          THEN [error |-> TRUE, eof |-> FALSE, data |-> <<>>, unused |-> <<>>]
     ELSE [error |-> FALSE, eof |-> TRUE, data |-> SubSeq(bs, 2, e - 1),
           unused |-> Drop(bs, e + 1)]

\* zlib.decompress(bs): the data of one complete stream, zlib.error otherwise.
Decompress(bs) ==
  LET d == DecompressObj(bs)
  IN IF d.error \/ ~d.eof THEN [error |-> TRUE, data |-> <<>>]
     ELSE [error |-> FALSE, data |-> d.data]

--------------------------------------------------------------------------
(* The object store *)

\* parent / ".git" / "objects" / sha[:2] / sha[2:]
ObjectPath(sha) == <<Slice(sha, 0, 2), Drop(sha, 2)>>

Put(store, path, bytes) ==
  [p \in DOMAIN store \cup {path} |-> IF p = path THEN bytes ELSE store[p]]

NoObject == [error |-> "", tip |-> <<>>, content |-> <<>>]

\* create_object naming the file by the hash of the payload alone
create_object_payload_hash(store, category, data) ==
  LET header == category \o <<SP>> \o Decimal(Len(data)) \o <<NUL>>
      content == header \o data
      sha == HexDigest(data)
  IN [sha |-> sha, store |-> Put(store, ObjectPath(sha), Compress(content))]

\* create_object: the sha it returns and the store after the write.
create_object(store, category, data) ==
  LET header == category \o <<SP>> \o Decimal(Len(data)) \o <<NUL>>
      content == header \o data
      sha == HexDigest(content)
  IN [sha |-> sha, store |-> Put(store, ObjectPath(sha), Compress(content))]

\* read_object splitting header and content at the last NUL, not the first
read_object_rsplit(store, sha) ==
  LET path == ObjectPath(sha)
      z == Decompress(store[path])
      last_nul == CHOOSE i \in 0..Len(z.data) :
                    /\ i > 0 => z.data[i] = NUL
                    /\ \A j \in (i + 1)..Len(z.data) : z.data[j] # NUL
      fields == Split(SubSeq(z.data, 1, last_nul - 1), SP)
  IN IF path \notin DOMAIN store
     THEN [NoObject EXCEPT !.error = "FileNotFoundError"]
     ELSE IF z.error THEN [NoObject EXCEPT !.error = "zlib.error"]
     ELSE IF last_nul = 0 \/ Len(fields) # 2
          THEN [NoObject EXCEPT !.error = "ValueError"]
     ELSE [error |-> "", tip |-> fields[1], content |-> Drop(z.data, last_nul)]

\* read_object: (tip, content), or the exception the code raises.
read_object(store, sha) ==
  LET path == ObjectPath(sha)
      z == Decompress(store[path])
      parts == Split1(z.data, NUL)
      fields == Split(parts[1], SP)
  IN IF path \notin DOMAIN store
     THEN [NoObject EXCEPT !.error = "FileNotFoundError"]
     ELSE IF z.error THEN [NoObject EXCEPT !.error = "zlib.error"]
     ELSE IF Len(parts) # 2 \/ Len(fields) # 2
          THEN [NoObject EXCEPT !.error = "ValueError"]
     ELSE [error |-> "", tip |-> fields[1], content |-> parts[2]]

--------------------------------------------------------------------------
(* Directories: a node is a regular file with its data or a directory with
   its children by name. *)

File(data) == [kind |-> "file", data |-> data, children |-> <<>>]
Dir(children) == [kind |-> "dir", data |-> <<>>, children |-> children]
Absent == [kind |-> "absent", data |-> <<>>, children |-> <<>>]
EmptyDir == Dir(<<>>)

DotGit == Ascii(<<46, 103, 105, 116>>)
ModeBlob == Ascii(<<49, 48, 48, 54, 52, 52>>)
\* the mode of a tree with the leading zero of ls-tree
ModeTreePadded == Ascii(<<48, 52, 48, 48, 48, 48>>)
ModeTree == Ascii(<<52, 48, 48, 48, 48>>)

\* the modes render_tree matches on
RenderModeTree == Ascii(<<52, 48, 48, 48, 48>>)
RenderModeBlob == Ascii(<<49, 48, 48, 54, 52, 52>>)

\* directory with child name set to node
WithChild(dir, name, node) ==
  Dir([n \in DOMAIN dir.children \cup {name} |->
         IF n = name THEN node ELSE dir.children[n]])

\* a < b for Python strings (code point order; byte order for ASCII)
RECURSIVE LexLess(_, _)
LexLess(a, b) ==
  IF b = <<>> THEN FALSE
  ELSE IF a = <<>> THEN TRUE
  ELSE IF a[1][1] # b[1][1] THEN a[1][1] < b[1][1]
  ELSE LexLess(Tail(a), Tail(b))

\* the sort key without the "/" of a directory
SortKeyName(node, name) == name

\* key=lambda x: x if os.path.isfile(os.path.join(path, x)) else f"{x}/"
SortKey(node, name) ==
  IF node.children[name].kind = "file" THEN name ELSE name \o <<SLASH>>

\* sorted(os.listdir(path), key=...): the keys of distinct names are distinct,
\* so the result does not depend on the order of the listing.
RECURSIVE SortedNames(_, _)
SortedNames(node, names) ==
  IF names = {} THEN <<>>
  ELSE LET first == CHOOSE n \in names :
                      \A m \in names \ {n} : LexLess(SortKey(node, n), SortKey(node, m))
       IN <<first>> \o SortedNames(node, names \ {first})

RECURSIVE write_tree(_, _)
RECURSIVE tree_entries(_, _, _)

\* The loop of write_tree over the sorted contents: the entries so far and
\* the store after the recursive calls.
tree_entries(store, node, contents) ==
  IF contents = <<>> THEN [entries |-> <<>>, store |-> store]
  ELSE LET item == Head(contents)
       IN IF item = DotGit THEN tree_entries(store, node, Tail(contents))
          ELSE LET child == node.children[item]
                   mode == IF child.kind = "file" THEN ModeBlob ELSE ModeTree
                   w == write_tree(store, child)
                   rest == tree_entries(w.store, node, Tail(contents))
               IN [entries |-> mode \o <<SP>> \o item \o <<NUL>> \o FromHex(w.sha)
                                \o rest.entries,
                   store |-> rest.store]

\* write_tree(path) for the node at path: the sha and the store afterwards.
write_tree(store, node) ==
  IF node.kind = "file" THEN create_object(store, TypeBlob, node.data)
  ELSE LET contents == SortedNames(node, DOMAIN node.children)
           t == tree_entries(store, node, contents)
           tree_content == TypeTree \o <<SP>> \o Decimal(Len(t.entries)) \o <<NUL>>
                             \o t.entries
           sha == HexDigest(tree_content)
       IN [sha |-> sha, store |-> Put(t.store, ObjectPath(sha), Compress(tree_content))]

RECURSIVE render_tree(_, _, _)
RECURSIVE render_entries(_, _, _)

\* The while loop of render_tree over what is left of tree_data.
render_entries(store, dir, tree_data) ==
  IF tree_data = <<>> THEN [error |-> "", dir |-> dir]
  ELSE LET a == Split1(tree_data, SP)
           b == Split1(a[2], NUL)
           mode == a[1]
           name == b[1]
           sha == Hex(Slice(b[2], 0, DigestLen))
           rest == Drop(b[2], DigestLen)
           old == IF name \in DOMAIN dir.children THEN dir.children[name] ELSE Absent
       IN IF Len(a) # 2 \/ Len(b) # 2 THEN [error |-> "ValueError", dir |-> dir]
          ELSE IF mode = RenderModeTree
          THEN LET sub == render_tree(store, old, sha)
                   now == IF sub.dir = Absent THEN dir ELSE WithChild(dir, name, sub.dir)
               IN IF sub.error # "" THEN [error |-> sub.error, dir |-> now]
                  ELSE render_entries(store, now, rest)
          ELSE IF mode = RenderModeBlob
          THEN LET blob == read_object(store, sha)
               IN IF blob.error # "" THEN [error |-> blob.error, dir |-> dir]
                  ELSE IF old.kind = "dir"
                       THEN [error |-> "IsADirectoryError", dir |-> dir]
                  ELSE render_entries(store, WithChild(dir, name, File(blob.content)), rest)
          ELSE [error |-> "RuntimeError", dir |-> dir]

\* render_tree(parent, directory, sha): directory is the node now at the
\* target path; the result is the node there afterwards.
render_tree(store, directory, sha) ==
  IF directory.kind = "file" THEN [error |-> "FileExistsError", dir |-> directory]
  ELSE LET made == IF directory.kind = "dir" THEN directory ELSE EmptyDir
           tree == read_object(store, sha)
       IN IF tree.error # "" THEN [error |-> tree.error, dir |-> made]
          ELSE render_entries(store, made, tree.content)

--------------------------------------------------------------------------
(* The pack decoder of clone *)

Pow2(n) == 2 ^ n

\* x & (1 << i) for a byte value x
Bit(x, i) == (x \div Pow2(i)) % 2 = 1

\* The scan "while bs[index - 1] & 0x80" shared by the two size decoders:
\* index of the first byte at or after index whose top bit is clear, 0 when
\* the bytes run out (IndexError).
RECURSIVE LastSizeByte(_, _)
LastSizeByte(bs, index) ==
  IF index > Len(bs) THEN 0
  ELSE IF bs[index][1] >= 128 THEN LastSizeByte(bs, index + 1)
  ELSE index

\* sum of (bs[k] & 0x7f) << off for the bytes k = from .. to, off growing by 7
RECURSIVE SizeBits(_, _, _, _)
SizeBits(bs, from, to, off) ==
  IF from > to THEN 0
  ELSE (bs[from][1] % 128) * Pow2(off) + SizeBits(bs, from + 1, to, off + 7)

TypeName(code) ==
  CASE code = 1 -> TypeCommit
    [] code = 2 -> TypeTree
    [] code = 3 -> TypeBlob
    [] code = 4 -> TypeTag
    [] code = 6 -> Ascii(<<111, 102, 115, 95, 100, 101, 108, 116, 97>>)
    [] code = 7 -> Ascii(<<114, 101, 102, 95, 100, 101, 108, 116, 97>>)
    [] OTHER -> Ascii(<<117, 110, 107, 110, 111, 119, 110>>)

TypeRefDelta == TypeName(7)

\* next_size_and_type(bs): (ty, size, rest), IndexError when bs runs out.
next_size_and_type(bs) ==
  LET e == LastSizeByte(bs, 1)
  IN IF e = 0 THEN [error |-> "IndexError", ty |-> <<>>, size |-> 0, rest |-> <<>>]
     ELSE [error |-> "",
           ty |-> TypeName((bs[1][1] % 128) \div 16),
           size |-> (bs[1][1] % 16) + SizeBits(bs, 2, e, 4),
           rest |-> Drop(bs, e)]

\* next_size(bs): (size, rest), IndexError when bs runs out.
next_size(bs) ==
  LET e == LastSizeByte(bs, 1)
  IN IF e = 0 THEN [error |-> "IndexError", size |-> 0, rest |-> <<>>]
     ELSE [error |-> "",
           size |-> (bs[1][1] % 128) + SizeBits(bs, 2, e, 7),
           rest |-> Drop(bs, e)]

\* The two for loops of a copy instruction: field i of content[0] selects
\* whether the byte at data_ptr belongs to offset (i < 4) or to size.
RECURSIVE copy_fields(_, _, _, _, _)
copy_fields(content, i, data_ptr, offset, size) ==
  IF i = 7 THEN [error |-> "", data_ptr |-> data_ptr, offset |-> offset, size |-> size]
  ELSE IF ~Bit(content[1][1], i)
       THEN copy_fields(content, i + 1, data_ptr, offset, size)
  ELSE IF data_ptr >= Len(content)
       THEN [error |-> "IndexError", data_ptr |-> data_ptr, offset |-> offset,
             size |-> size]
  ELSE IF i < 4
       THEN copy_fields(content, i + 1, data_ptr + 1,
                        offset + content[data_ptr + 1][1] * Pow2(i * 8), size)
  ELSE copy_fields(content, i + 1, data_ptr + 1, offset,
                   size + content[data_ptr + 1][1] * Pow2((i - 4) * 8))

\* base_content[offset: offset + size] of a copy instruction
copy_range(base_content, offset, size) == Slice(base_content, offset, offset + size)

\* The while loop over the delta instructions: target_content.
RECURSIVE apply_delta(_, _)
apply_delta(base_content, content) ==
  IF content = <<>> THEN [error |-> "", target |-> <<>>]
  ELSE IF content[1][1] >= 128
  THEN LET f == copy_fields(content, 0, 1, 0, 0)
           rest == apply_delta(base_content, Drop(content, f.data_ptr))
       IN IF f.error # "" THEN [error |-> f.error, target |-> <<>>]
          ELSE [error |-> rest.error,
                target |-> copy_range(base_content, f.offset, f.size) \o rest.target]
  ELSE LET size == content[1][1]
           append == Slice(content, 1, size + 1)
           rest == apply_delta(base_content, Drop(content, size + 1))
       IN [error |-> rest.error, target |-> append \o rest.target]

\* One iteration of "for _ in range(nr_objects)": what is left of the pack
\* and the store afterwards, or the exception raised.
pack_entry(store, bs) ==
  LET h == next_size_and_type(bs)
      plain == DecompressObj(h.rest)
      obj == Hex(Slice(h.rest, 0, DigestLen))
      dec == DecompressObj(Drop(h.rest, DigestLen))
      base == read_object(store, obj)
      s1 == next_size(dec.data)
      s2 == next_size(s1.rest)
      d == apply_delta(base.content, s2.rest)
      fail(e) == [error |-> e, rest |-> bs, store |-> store]
  IN IF h.error # "" THEN fail(h.error)
     ELSE IF h.ty \in ObjectTypes
     THEN IF plain.error THEN fail("zlib.error")
          ELSE [error |-> "", rest |-> plain.unused,
                store |-> create_object(store, h.ty, plain.data).store]
     ELSE IF h.ty = TypeRefDelta
     THEN IF dec.error THEN fail("zlib.error")
          ELSE IF base.error # "" THEN fail(base.error)
          ELSE IF s1.error # "" THEN fail(s1.error)
          ELSE IF s2.error # "" THEN fail(s2.error)
          ELSE IF d.error # "" THEN fail(d.error)
          ELSE [error |-> "", rest |-> dec.unused,
                store |-> create_object(store, base.tip, d.target).store]
     ELSE fail("RuntimeError")

\* pack_file[8:], struct.unpack("!I", pack_file[:4]), pack_file[4:]
pack_header(bs) ==
  LET n == Slice(bs, 8, 12)
  IN IF Len(n) < 4 THEN [error |-> "struct.error", nr_objects |-> 0, rest |-> <<>>]
     ELSE [error |-> "",
           nr_objects |-> ((n[1][1] * 256 + n[2][1]) * 256 + n[3][1]) * 256 + n[4][1],
           rest |-> Drop(bs, 12)]

\* b"".join(line[1:] for line in pack_lines[1:])
join_pack_lines(pack_lines) ==
  Concat([i \in 1..(Len(pack_lines) - 1) |-> Drop(pack_lines[i + 1], 1)])

--------------------------------------------------------------------------
(* What a remote serves: packs in the format of the decoder, written the way
   a git server writes them. *)

\* the framed form "<type> <length>\0" || payload an OID is the SHA-1 of
Framed(type, payload) == type \o <<SP>> \o Decimal(Len(payload)) \o <<NUL>> \o payload

Oid(type, payload) == Sha1(Framed(type, payload))

RECURSIVE Varint(_)
Varint(n) == IF n < 128 THEN <<B(n)>> ELSE <<B(128 + (n % 128))>> \o Varint(n \div 128)

EntryHeader(code, size) ==
  IF size < 16 THEN <<B(code * 16 + size)>>
  ELSE <<B(128 + code * 16 + (size % 16))>> \o Varint(size \div 16)

PlainEntry(code, payload) == EntryHeader(code, Len(payload)) \o Compress(payload)

RefDeltaEntry(base_oid, delta) ==
  EntryHeader(7, Len(delta)) \o base_oid \o Compress(delta)

\* copy instruction with the given offset and size bytes (least significant
\* first, a byte of -1 is left out)
CopyInstr(offs, sizes) ==
  LET bits(bytes, from) ==
        LET RECURSIVE sum(_)
            sum(i) == IF i > Len(bytes) THEN 0
                      ELSE (IF bytes[i] >= 0 THEN Pow2(from + i - 1) ELSE 0) + sum(i + 1)
        IN sum(1)
      present(bytes) == SelectSeq(bytes, LAMBDA v : v >= 0)
  IN <<B(128 + bits(offs, 0) + bits(sizes, 4))>> \o Ascii(present(offs))
       \o Ascii(present(sizes))

InsertInstr(data) == <<B(Len(data))>> \o data

Delta(base_size, result_size, prog) == Varint(base_size) \o Varint(result_size) \o prog

U32(n) == <<B(0), B(0), B(0), B(n)>>

PackBody(entries) ==
  Ascii(<<80, 65, 67, 75>>) \o U32(2) \o U32(Len(entries)) \o Concat(entries)

\* the pkt-line payloads of the fetch response: the section header, then the
\* pack on channel 1 in two lines; cut bytes short of the end of the entries
\* when the stream ends early (cut = 0: complete, with the trailer).
PackLines(entries, cut) ==
  LET body == PackBody(entries)
      pack == IF cut = 0 THEN body \o Sha1(body) ELSE SubSeq(body, 1, Len(body) - cut)
  IN <<Ascii(<<112, 97, 99, 107, 102, 105, 108, 101, 10>>),
       <<B(1)>> \o Slice(pack, 0, 12),
       <<B(1)>> \o Drop(pack, 12)>>

Hi == Ascii(<<104, 105>>)
NameA == Ascii(<<97>>)
Z == Ascii(<<122>>)
W == Ascii(<<119>>)

RepoTreePayload == ModeBlob \o <<SP>> \o NameA \o <<NUL>> \o Oid(TypeBlob, Hi)

CommitPayload(tree_payload) ==
  TypeTree \o <<SP>> \o Hex(Oid(TypeTree, tree_payload)) \o <<LF, LF>>
    \o Ascii(<<109, 10>>)

TagPayload == Ascii(<<116, 49>>)

\* a commit, its tree with the one file a = "hi", and the blob
RepoEntries ==
  <<PlainEntry(1, CommitPayload(RepoTreePayload)), PlainEntry(2, RepoTreePayload),
    PlainEntry(3, Hi)>>

\* a commit of the empty tree
EmptyRepoEntries == <<PlainEntry(1, CommitPayload(<<>>)), PlainEntry(2, <<>>)>>

RefsTo(tree_payload) ==
  [n \in {"HEAD", "refs/heads/main"} |-> Hex(Oid(TypeCommit, CommitPayload(tree_payload)))]

Copy(offs, sizes) == [op |-> "copy", offs |-> offs, sizes |-> sizes, data |-> <<>>]
Insert(data) == [op |-> "insert", offs |-> <<>>, sizes |-> <<>>, data |-> data]

\* Delta programs against the blob "hi", by name.
Programs ==
  [copy_insert |-> <<Copy(<<0>>, <<1>>), Insert(Z)>>,
   copy_all_bytes |-> <<Copy(<<0, 0, 0, 0>>, <<2, 0, 0>>), Insert(Z)>>,
   copy_beyond |-> <<Copy(<<1>>, <<5>>)>>,
   copy_outside |-> <<Copy(<<7>>, <<1>>), Insert(Z)>>,
   copy_no_size |-> <<Copy(<<1>>, <<>>)>>,
   copy_no_bytes |-> <<Copy(<<>>, <<>>), Insert(Z)>>,
   copy_zero_size |-> <<Copy(<<1>>, <<0>>)>>]

Encoded(prog) ==
  Concat([i \in 1..Len(prog) |->
            IF prog[i].op = "copy" THEN CopyInstr(prog[i].offs, prog[i].sizes)
            ELSE InsertInstr(prog[i].data)])

\* value of the bytes of a copy field, least significant first, absent: 0
RECURSIVE FieldValue(_)
FieldValue(bytes) ==
  IF bytes = <<>> THEN 0
  ELSE (IF Head(bytes) >= 0 THEN Head(bytes) ELSE 0) + 256 * FieldValue(Tail(bytes))

\* The object a program stands for in the pack format: a copy size of 0
\* means 0x10000.
RECURSIVE FormatResult(_, _)
FormatResult(base, prog) ==
  IF prog = <<>> THEN <<>>
  ELSE LET i == Head(prog)
           size == FieldValue(i.sizes)
           offset == FieldValue(i.offs)
       IN (IF i.op = "insert" THEN i.data
           ELSE Slice(base, offset, offset + (IF size = 0 THEN 65536 ELSE size)))
          \o FormatResult(base, Tail(prog))

\* whether every copy of the program stays inside the base
RECURSIVE InsideBase(_, _)
InsideBase(base, prog) ==
  prog = <<>>
  \/ /\ \/ Head(prog).op = "insert"
        \/ FieldValue(Head(prog).offs)
             + (IF FieldValue(Head(prog).sizes) = 0 THEN 65536
                ELSE FieldValue(Head(prog).sizes)) <= Len(base)
     /\ InsideBase(base, Tail(prog))

HiDelta(name) ==
  RefDeltaEntry(Oid(TypeBlob, Hi),
                Delta(Len(Hi), Len(FormatResult(Hi, Programs[name])),
                      Encoded(Programs[name])))

\* kind: what the pack is like; cut: bytes missing at the end of the stream;
\* deltas: the programs of its ref-delta entries, all against the blob "hi".
Server(kind, advertised, entries, cut, deltas) ==
  [kind |-> kind, refs |-> advertised, lines |-> PackLines(entries, cut),
   cut |-> cut, deltas |-> deltas]

NoServer == [kind |-> "none", refs |-> <<>>, lines |-> <<>>, cut |-> 0, deltas |-> {}]

MaxCut == 7

Servers ==
  {Server("plain", RefsTo(RepoTreePayload),
          RepoEntries \o <<PlainEntry(4, TagPayload)>>, 0, {})}
  \cup {Server("backward", RefsTo(RepoTreePayload), RepoEntries \o <<HiDelta(n)>>, 0, {n}) :
          n \in DOMAIN Programs}
  \cup {Server("forward", RefsTo(RepoTreePayload),
               <<RepoEntries[1], RepoEntries[2], HiDelta("copy_insert"), RepoEntries[3]>>,
               0, {"copy_insert"})}
  \cup {Server("thin", RefsTo(<<>>), EmptyRepoEntries \o <<HiDelta("copy_insert")>>,
               0, {"copy_insert"})}
  \cup {Server("ofs_delta", RefsTo(<<>>),
               EmptyRepoEntries \o <<EntryHeader(6, 1) \o <<B(1)>> \o Compress(Z)>>, 0, {})}
  \cup {Server("truncated", RefsTo(RepoTreePayload),
               RepoEntries \o <<PlainEntry(4, TagPayload)>>, cut, {}) : cut \in 1..MaxCut}

--------------------------------------------------------------------------
(* The commands *)

MaxCmds == 2

\* cmd: the command or function; error, at: the exception and the step that
\* raised it; sha: the sha returned or read; dir: the directory write-tree
\* listed; type, payload: the arguments of create_object; tip, content: what
\* read_object returned
NoResult ==
  [cmd |-> "none", error |-> "", at |-> "", sha |-> <<>>, dir |-> Absent,
   type |-> <<>>, payload |-> <<>>, tip |-> <<>>, content |-> <<>>]

Result(cmd, error, at, sha) == [NoResult EXCEPT !.cmd = cmd, !.error = error, !.at = at, !.sha = sha]

\* the working directory once something has been written under .git
WithGit(dir) == IF DotGit \in DOMAIN dir.children THEN dir ELSE WithChild(dir, DotGit, EmptyDir)

WriteFile(files, name, text) ==
  [n \in DOMAIN files \cup {name} |-> IF n = name THEN text ELSE files[n]]

SymbolicHead ==
  Ascii(<<114, 101, 102, 58, 32, 114, 101, 102, 115, 47, 104, 101, 97, 100, 115, 47,
          109, 97, 105, 110, 10>>)

\* contents of the files hash-object is run on
HashContents == {<<>>, Hi, <<NUL, SP, B(97)>>}

\* time.mktime(time.localtime()) when commit-tree runs
Timestamps == {1700000000}

Idle == pc = "idle" /\ cmds < MaxCmds

CloneVars == <<pc, server, pack_file, nr_left>>

\* init
GitInit ==
  /\ Idle
  /\ cmds' = cmds + 1
  /\ IF DotGit \in DOMAIN worktree.children
     THEN /\ last' = Result("init", "FileExistsError", "mkdir", <<>>)
          /\ UNCHANGED <<worktree, refs>>
     ELSE /\ worktree' = WithGit(worktree)
          /\ refs' = WriteFile(refs, "HEAD", SymbolicHead)
          /\ last' = Result("init", "", "", <<>>)
  /\ UNCHANGED <<objects, rendered>>
  /\ UNCHANGED CloneVars

\* hash-object -w <file>, the file holding data
HashObject(data) ==
  /\ Idle
  /\ cmds' = cmds + 1
  /\ LET c == create_object(objects, TypeBlob, data)
     IN /\ objects' = c.store
        /\ last' = Result("hash-object", "", "", c.sha)
  /\ worktree' = WithGit(worktree)
  /\ UNCHANGED <<refs, rendered>>
  /\ UNCHANGED CloneVars

\* commit-tree <tree_sha> -p <commit_sha> -m <message> at time now
CommitTree(tree_sha, commit_sha, message, now) ==
  /\ Idle
  /\ cmds' = cmds + 1
  /\ LET data == Ascii(<<116, 114, 101, 101, 32>>) \o tree_sha \o <<LF>>
                   \o Ascii(<<112, 97, 114, 101, 110, 116, 32>>) \o commit_sha \o <<LF>>
                   \o Ascii(<<116, 105, 109, 101, 115, 116, 97, 109, 112, 32>>)
                   \o Decimal(now) \o <<LF>>
                   \o Ascii(<<97, 117, 116, 104, 111, 114, 10>>)
                   \o Ascii(<<99, 111, 109, 109, 105, 116, 116, 101, 114, 10, 10>>)
                   \o message \o <<LF>>
         c == create_object(objects, TypeCommit, data)
     IN /\ objects' = c.store
        /\ last' = Result("commit-tree", "", "", c.sha)
  /\ worktree' = WithGit(worktree)
  /\ UNCHANGED <<refs, rendered>>
  /\ UNCHANGED CloneVars

\* write-tree
WriteTree ==
  /\ Idle
  /\ cmds' = cmds + 1
  /\ LET w == write_tree(objects, worktree)
     IN /\ objects' = w.store
        /\ last' = [Result("write-tree", "", "", w.sha) EXCEPT !.dir = worktree]
  /\ worktree' = WithGit(worktree)
  /\ UNCHANGED <<refs, rendered>>
  /\ UNCHANGED CloneVars

\* render_tree(parent, directory, sha) for the tree write-tree has just
\* written and a directory that does not exist yet
RenderTree ==
  /\ pc = "idle"
  /\ last.cmd = "write-tree"
  /\ LET r == render_tree(objects, Absent, last.sha)
     IN /\ rendered' = r.dir
        /\ last' = [last EXCEPT !.cmd = "render_tree", !.error = r.error]
  /\ UNCHANGED <<worktree, objects, refs, cmds>>
  /\ UNCHANGED CloneVars

\* clone <url> . : the refs are fetched and the reference files written
CloneRenderRefs(srv) ==
  /\ Idle
  /\ cmds' = cmds + 1
  /\ pc' = "fetch"
  /\ server' = srv
  /\ refs' = [n \in DOMAIN refs \cup DOMAIN srv.refs |->
                IF n \in DOMAIN srv.refs THEN srv.refs[n] \o <<LF>> ELSE refs[n]]
  /\ worktree' = WithGit(worktree)
  /\ last' = NoResult
  /\ UNCHANGED <<objects, rendered, pack_file, nr_left>>

CloneEnds(error, at) ==
  /\ pc' = "idle"
  /\ last' = Result("clone", error, at, <<>>)
  /\ pack_file' = <<>>
  /\ nr_left' = 0

\* clone: the request for the pack fails
CloneFetchFails ==
  /\ pc = "fetch"
  /\ CloneEnds("URLError", "fetch")
  /\ UNCHANGED <<worktree, objects, refs, rendered, cmds, server>>

\* clone: the pack is fetched and its header read
CloneFetchPack ==
  /\ pc = "fetch"
  /\ LET h == pack_header(join_pack_lines(server.lines))
     IN IF h.error # "" THEN CloneEnds(h.error, "header")
        ELSE /\ pc' = "ingest"
             /\ pack_file' = h.rest
             /\ nr_left' = h.nr_objects
             /\ UNCHANGED last
  /\ UNCHANGED <<worktree, objects, refs, rendered, cmds, server>>

\* clone: one iteration of the loop over the objects of the pack
CloneIngest ==
  /\ pc = "ingest"
  /\ nr_left > 0
  /\ LET r == pack_entry(objects, pack_file)
     IN IF r.error # ""
        THEN CloneEnds(r.error, "ingest") /\ UNCHANGED objects
        ELSE /\ objects' = r.store
             /\ pack_file' = r.rest
             /\ nr_left' = nr_left - 1
             /\ UNCHANGED <<pc, last>>
  /\ UNCHANGED <<worktree, refs, rendered, cmds, server>>

\* clone: after the loop, the tree of the commit HEAD names is rendered
CloneCheckout ==
  /\ pc = "ingest"
  /\ nr_left = 0
  /\ LET commit == read_object(objects, server.refs["HEAD"])
         tree_sha == Slice(commit.content, 5, 2 * DigestLen + 5)
         r == render_tree(objects, worktree, tree_sha)
     IN IF "HEAD" \notin DOMAIN server.refs
        THEN CloneEnds("KeyError", "checkout") /\ UNCHANGED worktree
        ELSE IF commit.error # ""
        THEN CloneEnds(commit.error, "checkout") /\ UNCHANGED worktree
        ELSE CloneEnds(r.error, "checkout") /\ worktree' = r.dir
  /\ UNCHANGED <<objects, refs, rendered, cmds, server>>

--------------------------------------------------------------------------
(* Spec: every command, on a few working directories *)

MainDirs ==
  {EmptyDir, Dir([n \in {NameA} |-> EmptyDir]), Dir([n \in {NameA} |-> File(W)])}

InitWith(dirs) ==
  /\ worktree \in dirs
  /\ objects = <<>>
  /\ refs = <<>>
  /\ rendered = Absent
  /\ last = NoResult
  /\ cmds = 0
  /\ pc = "idle"
  /\ server = NoServer
  /\ pack_file = <<>>
  /\ nr_left = 0

Init == InitWith(MainDirs)

Next ==
  \/ GitInit
  \/ \E data \in HashContents : HashObject(data)
  \/ \E now \in Timestamps :
       CommitTree(HexDigest(Framed(TypeTree, <<>>)), HexDigest(Framed(TypeTree, <<>>)),
                  Ascii(<<109>>), now)
  \/ WriteTree
  \/ RenderTree
  \/ \E srv \in Servers : CloneRenderRefs(srv)
  \/ CloneFetchFails
  \/ CloneFetchPack
  \/ CloneIngest
  \/ CloneCheckout

Spec == Init /\ [][Next]_vars

--------------------------------------------------------------------------
(* SpecTree: write-tree and render_tree on many working directories *)

NameADash == Ascii(<<97, 45>>)
NameA0 == Ascii(<<97, 48>>)

Children ==
  {File(<<>>), File(W), File(<<NUL, SP>>), EmptyDir,
   Dir([n \in {NameA, NameADash} |-> IF n = NameA THEN EmptyDir ELSE File(W)]),
   Dir([n \in {DotGit, NameA} |-> IF n = DotGit THEN EmptyDir ELSE File(W)]),
   Dir([n \in {DotGit} |-> File(W)])}

TreeDirs ==
  {Dir(c) : c \in UNION {[names -> Children] : names \in SUBSET {NameA, NameADash, NameA0}}}

TreeInit == InitWith(TreeDirs)

TreeNext == GitInit \/ WriteTree \/ RenderTree

SpecTree == TreeInit /\ [][TreeNext]_vars

--------------------------------------------------------------------------
(* SpecRead: read_object on an object file that create_object did not write *)

MaxDeclared == 2
MaxStoredLen == 2

RECURSIVE SeqsUpTo(_, _)
SeqsUpTo(S, n) ==
  IF n = 0 THEN {<<>>}
  ELSE LET shorter == SeqsUpTo(S, n - 1)
       IN shorter \cup {Append(q, x) : q \in {r \in shorter : Len(r) = n - 1}, x \in S}

StoredContents ==
  {type \o gap \o length \o nul \o payload :
     type \in {TypeBlob, TypeTag},
     gap \in {<<SP>>, <<>>, <<SP, SP>>},
     length \in {Decimal(n) : n \in 0..MaxDeclared} \cup {<<>>, <<B(120)>>},
     nul \in {<<NUL>>, <<>>},
     payload \in SeqsUpTo({NUL, B(97)}, MaxStoredLen)}

ReadInit ==
  /\ worktree = WithGit(EmptyDir)
  /\ objects \in {Put(<<>>, ObjectPath(HexDigest(c)), Compress(c)) : c \in StoredContents}
  /\ refs = <<>>
  /\ rendered = Absent
  /\ last = NoResult
  /\ cmds = 0
  /\ pc = "idle"
  /\ server = NoServer
  /\ pack_file = <<>>
  /\ nr_left = 0

\* read_object(sha, parent)
ReadObject(sha) ==
  /\ pc = "idle"
  /\ last.cmd # "read_object"
  /\ LET r == read_object(objects, sha)
     IN last' = [last EXCEPT !.cmd = "read_object", !.error = r.error, !.sha = sha,
                             !.tip = r.tip, !.content = r.content]
  /\ UNCHANGED <<worktree, objects, refs, rendered, cmds>>
  /\ UNCHANGED CloneVars

ReadNext == \E path \in DOMAIN objects : ReadObject(path[1] \o path[2])

SpecRead == ReadInit /\ [][ReadNext]_vars

--------------------------------------------------------------------------
(* SpecStore: create_object on any type and payload, then read_object *)

MaxPayloadLen == 2

Payloads == SeqsUpTo({NUL, SP, B(97)}, MaxPayloadLen)

StoreInit ==
  /\ worktree = WithGit(EmptyDir)
  /\ objects \in {<<>>, create_object(<<>>, TypeBlob, <<>>).store,
                  create_object(create_object(<<>>, TypeTag, <<SP>>).store, TypeBlob, Hi).store}
  /\ refs = <<>>
  /\ rendered = Absent
  /\ last = NoResult
  /\ cmds = 0
  /\ pc = "idle"
  /\ server = NoServer
  /\ pack_file = <<>>
  /\ nr_left = 0

\* create_object(category, data, parent)
CreateObject(category, data) ==
  /\ pc = "idle"
  /\ last.cmd = "none"
  /\ LET c == create_object(objects, category, data)
     IN /\ objects' = c.store
        /\ last' = [Result("create_object", "", "", c.sha) EXCEPT
                      !.type = category, !.payload = data]
  /\ UNCHANGED <<worktree, refs, rendered, cmds>>
  /\ UNCHANGED CloneVars

ReadBack == last.cmd = "create_object" /\ ReadObject(last.sha)

StoreNext ==
  \/ \E category \in ObjectTypes, data \in Payloads : CreateObject(category, data)
  \/ ReadBack

SpecStore == StoreInit /\ [][StoreNext]_vars

--------------------------------------------------------------------------
(* The claims *)

Stored(type, payload) == ObjectPath(Hex(Oid(type, payload))) \in DOMAIN objects

\* content is "<type> <decimal length>\0" || payload for a valid type and the
\* length of the payload
IsFramed(content) ==
  \E type \in ObjectTypes :
    /\ Len(content) > Len(type)
    /\ SubSeq(content, 1, Len(type) + 1) = type \o <<SP>>
    /\ LET parts == Split1(content, NUL)
       IN /\ Len(parts) = 2
          /\ parts[1] = type \o <<SP>> \o Decimal(Len(parts[2]))

CloneEnded == pc = "idle" /\ last.cmd = "clone"

\* C1: for every valid type t and every payload p (the empty one and those
\* with NUL or space bytes included), reading back the object create_object
\* has just stored returns (t, p).
C1_RoundTrip ==
  (last.cmd = "read_object" /\ last.type \in ObjectTypes)
  => last.error = "" /\ last.tip = last.type /\ last.content = last.payload

\* a tag whose payload is a NUL and a space has been stored and read back
C1_Witness ==
  /\ last.cmd = "read_object"
  /\ last.type = TypeTag
  /\ last.payload = <<NUL, SP>>
  /\ last.content = <<NUL, SP>>
  /\ Cardinality(DOMAIN objects) = 3

\* C2: in every reachable state, every file objects/<xx>/<yy> inflates to a
\* framed object whose SHA-1 in hex is <xx><yy>.
C2_StoredUnderOwnHash ==
  \A path \in DOMAIN objects :
    LET z == Decompress(objects[path])
    IN /\ ~z.error
       /\ IsFramed(z.data)
       /\ Len(path[1]) = 2
       /\ path[1] \o path[2] = Hex(Sha1(z.data))

\* a write-tree has stored the blob of the file a = "w", and a clone after it
\* has stored objects of its pack and then raised in the object loop
C2_Witness ==
  /\ CloneEnded
  /\ last.at = "ingest"
  /\ Stored(TypeBlob, W)
  /\ Stored(TypeCommit, CommitPayload(RepoTreePayload))

\* C3: a well-formed pack whose ref-deltas each name a base that is in the
\* store or anywhere in the pack is ingested without error, and every
\* reconstructed object is stored with the type of its base.
C3_DeltasResolve ==
  (/\ CloneEnded
   /\ last.at # "fetch"
   /\ server.cut = 0
   /\ server.deltas # {}
   /\ \A n \in server.deltas : InsideBase(Hi, Programs[n])
   /\ server.kind \in {"backward", "forward"} \/ Stored(TypeBlob, Hi))
  => /\ last.at # "ingest"
     /\ \A n \in server.deltas : Stored(TypeBlob, FormatResult(Hi, Programs[n]))

\* the (mode, name, oid) entries of a tree payload
RECURSIVE EntriesOf(_)
EntriesOf(payload) ==
  IF payload = <<>> THEN <<>>
  ELSE LET sp == IndexOf(payload, SP)
           rest == Drop(payload, sp)
           nul == IndexOf(rest, NUL)
       IN <<[mode |-> SubSeq(payload, 1, sp - 1), name |-> SubSeq(rest, 1, nul - 1),
             oid |-> SubSeq(rest, nul + 1, nul + DigestLen)]>>
          \o EntriesOf(Drop(rest, nul + DigestLen))

\* a < b byte-wise
RECURSIVE BytesLess(_, _)
BytesLess(a, b) ==
  /\ b # <<>>
  /\ \/ a = <<>>
     \/ a[1][1] < b[1][1]
     \/ a[1][1] = b[1][1] /\ BytesLess(Tail(a), Tail(b))

KeyOf(entry) ==
  IF entry.mode = Ascii(<<52, 48, 48, 48, 48>>) THEN entry.name \o <<SLASH>> ELSE entry.name

\* the tree stored under sha lists the children of the directory node but
\* .git, with their modes, in ascending order of the key, and so on below
RECURSIVE WellOrdered(_, _)
WellOrdered(node, sha) ==
  LET tree == read_object(objects, sha)
      entries == EntriesOf(tree.content)
      kept == DOMAIN node.children \ {DotGit}
  IN /\ tree.error = ""
     /\ tree.tip = TypeTree
     /\ {entries[i].name : i \in 1..Len(entries)} = kept
     /\ Len(entries) = Cardinality(kept)
     /\ \A i \in 1..(Len(entries) - 1) : BytesLess(KeyOf(entries[i]), KeyOf(entries[i + 1]))
     /\ \A i \in 1..Len(entries) :
          LET child == node.children[entries[i].name]
          IN IF child.kind = "file"
             THEN entries[i].mode = Ascii(<<49, 48, 48, 54, 52, 52>>)
             ELSE /\ entries[i].mode = Ascii(<<52, 48, 48, 48, 48>>)
                  /\ WellOrdered(child, Hex(entries[i].oid))

\* C4: write_tree emits the entries of every directory in ascending byte
\* order of the key (the name of a file, the name and "/" of a directory),
\* and leaves out a child named .git.
C4_EntriesSorted ==
  last.cmd \in {"write-tree", "render_tree"} => WellOrdered(last.dir, last.sha)

\* a file a- and a directory a side by side, and a .git child, were captured
C4_Witness ==
  /\ last.cmd = "write-tree"
  /\ DotGit \in DOMAIN last.dir.children
  /\ {NameA, NameADash} \subseteq DOMAIN last.dir.children
  /\ last.dir.children[NameA].kind = "dir"
  /\ last.dir.children[NameADash].kind = "file"
  /\ ObjectPath(last.sha) \in DOMAIN objects

\* the directory without the children named .git, at every level
RECURSIVE WithoutGit(_)
WithoutGit(node) ==
  IF node.kind # "dir" THEN node
  ELSE Dir([n \in DOMAIN node.children \ {DotGit} |-> WithoutGit(node.children[n])])

ZeroSizePrograms == {"copy_no_size", "copy_no_bytes", "copy_zero_size"}

\* C6: a copy whose size decodes to 0 appends base[offset : offset + 0x10000]
\* (absent offset and size bytes being zero), so the object of such a delta is
\* stored once the pack has been ingested.
C6_ZeroSizeCopy ==
  (CloneEnded /\ last.at = "checkout" /\ server.kind = "backward")
  => \A n \in server.deltas \cap ZeroSizePrograms :
       Stored(TypeBlob, FormatResult(Hi, Programs[n]))

OverflowPrograms == {"copy_beyond", "copy_outside"}

\* C7: a copy of a nonzero size that reaches beyond the end of the base makes
\* the ingest fail, and the delta entry leaves no reconstructed object.
C7_DeltaOverflow ==
  (CloneEnded /\ last.at # "fetch" /\ server.kind = "backward"
     /\ server.deltas \cap OverflowPrograms # {})
  => /\ last.at = "ingest"
     /\ last.error # ""
     /\ \A n \in server.deltas : ~Stored(TypeBlob, FormatResult(Hi, Programs[n]))

\* C8: a pack stream that ends inside its last entry, or before it, makes the
\* ingest fail, and no object is made from the incomplete entry.
C8_TruncatedPack ==
  (CloneEnded /\ last.at # "fetch" /\ server.kind = "truncated")
  => /\ last.at = "ingest"
     /\ last.error # ""
     /\ \A k \in 0..(Len(TagPayload) - 1) : ~Stored(TypeTag, SubSeq(TagPayload, 1, k))

\* C9: read_object fails on a stored object whose header is malformed or
\* whose declared length is not the length of its payload.
C9_CorruptObject ==
  \A path \in DOMAIN objects :
    (last.cmd = "read_object" /\ last.sha = path[1] \o path[2]
       /\ ~IsFramed(Decompress(objects[path]).data))
    => last.error # ""

\* C10: at every point of a clone, every reference file that names an object
\* names one that is in the store.
C10_RefsAfterObjects ==
  \A n \in DOMAIN refs :
    refs[n] # SymbolicHead => ObjectPath(Slice(refs[n], 0, 2 * DigestLen)) \in DOMAIN objects

====
